---- MODULE Spec2Model ----
(***************************************************************************)
(* Model of mcp-git-repo-browser (src/src/index.js): the repository cache  *)
(* (cloneRepo), the tree renderer (getDirectoryTree) and the two tool      *)
(* handlers behind the CallTool dispatcher.                                *)
(*                                                                         *)
(* Strings are modelled as sequences: an entry name is a sequence of       *)
(* one-character strings compared by UTF-16 code unit, a message is a      *)
(* sequence of words.                                                      *)
(***************************************************************************)
EXTENDS Integers, Sequences, FiniteSets, TLC

-----------------------------------------------------------------------------
(* Entry names and their ordering (Array.prototype.sort default order)     *)

\* UTF-16 code units of the characters used in the modelled names
CharCode ==
  [c \in {"-", ".", "_", "a", "e", "g", "i", "n", "o", "p", "r", "t", "v", "x"} |->
     CASE c = "-" -> 45  [] c = "." -> 46  [] c = "_" -> 95
       [] c = "a" -> 97  [] c = "e" -> 101 [] c = "g" -> 103
       [] c = "i" -> 105 [] c = "n" -> 110 [] c = "o" -> 111
       [] c = "p" -> 112 [] c = "r" -> 114 [] c = "t" -> 116
       [] c = "v" -> 118 [] c = "x" -> 120]

DotGit == <<".", "g", "i", "t">>
DotGitignore == <<".", "g", "i", "t", "i", "g", "n", "o", "r", "e">>
DotEnv == <<".", "e", "n", "v">>
NameA == <<"a">>
NameX == <<"x", ".", "t", "x", "t">>
ProtoKey == <<"_", "_", "p", "r", "o", "t", "o", "_", "_">>

\* entry.startsWith(pre)
StartsWith(entry, pre) ==
  /\ Len(entry) >= Len(pre)
  /\ \A k \in 1..Len(pre) : entry[k] = pre[k]

\* a < b in the order entries.sort() uses (code unit by code unit, a proper
\* prefix first)
StrLess(a, b) ==
  \E k \in 1..(Len(b)) :
     /\ \A j \in 1..(k - 1) : j <= Len(a) /\ a[j] = b[j]
     /\ \/ Len(a) = k - 1
        \/ Len(a) >= k /\ CharCode[a[k]] < CharCode[b[k]]

-----------------------------------------------------------------------------
(* Bounds                                                                  *)

\* largest number of entries (files and directories) of a rendered tree
MaxNodes == 4

-----------------------------------------------------------------------------
(* File system of one directory tree.  A tree is a function from the path  *)
(* of each entry below the root (a non-empty sequence of names) to TRUE    *)
(* for a directory and FALSE for a regular file.                           *)

TreeNames == {DotEnv, DotGit, DotGitignore, NameX}

EmptyTree == [p \in {} |-> FALSE]

\* the names fs.readdir(dirPath) yields, as a set
Children(tree, dirPath) ==
  {p[Len(p)] : p \in {q \in DOMAIN tree :
                        Len(q) = Len(dirPath) + 1 /\ SubSeq(q, 1, Len(dirPath)) = dirPath}}

\* fs.readdir(dirPath): the entries in the order the platform hands them
\* out, here the order in which they occur in order
readdir(tree, dirPath, order) ==
  SelectSeq(order, LAMBDA n : n \in Children(tree, dirPath))

RECURSIVE InsertSorted(_, _)
InsertSorted(s, e) ==
  IF s = <<>> THEN <<e>>
  ELSE IF StrLess(e, s[1]) THEN <<e>> \o s
  ELSE <<s[1]>> \o InsertSorted(Tail(s), e)

SortMutNoSort(s) == s

\* entries.sort()
RECURSIVE Sort(_)
Sort(s) == IF s = <<>> THEN <<>> ELSE InsertSorted(Sort(Tail(s)), s[1])

\* the names that occur in a tree
NamesIn(tree) == {p[Len(p)] : p \in DOMAIN tree}

\* the permutations of a set of names, as sequences
Orders(S) ==
  {o \in [1..Cardinality(S) -> S] : \A i, j \in 1..Cardinality(S) : i # j => o[i] # o[j]}

\* the branch-drawing pieces, in ASCII: MidConnector is the mid-branch
\* connector, LastConnector the terminal one, PassThrough and Blank the
\* continuation prefixes that go with them
MidConnector == "|-- "
LastConnector == "L-- "
PassThrough == "|   "
Blank == "    "

\* const isLast = i === entries.length - 1 (i counted from 1 here)
isLast(entries, i) == i = Len(entries)

\* if (entry.startsWith('.git')) continue
skip(entry) == StartsWith(entry, DotGit)

\* getDirectoryTree(dirPath, prefix): the output as a sequence of lines, one
\* per `prefix + currentPrefix + entry + '\n'`
RECURSIVE getDirectoryTree(_, _, _, _), renderLoop(_, _, _, _, _, _)
renderLoop(tree, dirPath, prefix, order, entries, i) ==
  IF i > Len(entries) THEN <<>>
  ELSE IF skip(entries[i]) THEN renderLoop(tree, dirPath, prefix, order, entries, i + 1)
  ELSE
    LET entry == entries[i]
        currentPrefix == IF isLast(entries, i) THEN LastConnector ELSE MidConnector
        nextPrefix == IF isLast(entries, i) THEN Blank ELSE PassThrough
        entryPath == Append(dirPath, entry)
        line == [prefix |-> prefix, conn |-> currentPrefix, entry |-> entry]
    IN  <<line>>
        \o (IF tree[entryPath]
              THEN getDirectoryTree(tree, entryPath, Append(prefix, nextPrefix), order)
              ELSE <<>>)
        \o renderLoop(tree, dirPath, prefix, order, entries, i + 1)

getDirectoryTree(tree, dirPath, prefix, order) ==
  renderLoop(tree, dirPath, prefix, order, Sort(readdir(tree, dirPath, order)), 1)

-----------------------------------------------------------------------------
(* Requests, the remote repositories and the cache on disk                 *)

\* longest file_paths argument that is modelled
MaxPaths == 2

\* the tool invocations that may be in flight at the same time
Procs == {1, 2}

UrlA == "https://host/a.git"
UrlB == "https://host/b.git"
URLs == {UrlA, UrlB}

\* the remotes a clone can fetch; a clone of any other URL fails
Reachable == {UrlA}

ToolNames == {"git_directory_structure", "git_read_important_files", "git_unknown_tool"}

\* the relative paths a caller asks for
FileNames == {NameX, NameA, DotEnv, ProtoKey}

SeqsUpTo(S, n) == UNION {[1..k -> S] : k \in 0..n}

\* crypto.createHash('sha256').update(repoUrl).digest('hex').slice(0, 12)
repoHash(repoUrl) == IF repoUrl = UrlA THEN "3f1a9c0b7e22" ELSE "b80d41c6a95f"

\* path.join(os.tmpdir(), `github_tools_${repoHash}`)
tempDirOf(repoUrl) == <<"tmp", "github_tools", repoHash(repoUrl)>>

Paths == {tempDirOf(u) : u \in URLs}

\* what a clone materializes: the metadata directory and the files of the
\* default branch (.env is a directory, x.txt a file below the root)
WorkTree ==
  (<<DotGit>> :> TRUE) @@ (<<DotEnv>> :> TRUE) @@ (<<DotEnv, NameX>> :> FALSE)
  @@ (<<NameX>> :> FALSE)

\* what a clone in progress has written so far
PartialTree == (<<DotGit>> :> TRUE)

\* a directory that is not a working copy
JunkTree == (<<NameX>> :> FALSE)

\* the text of every regular file
FileText == <<"hello">>

\* One cache directory.  kind: "absent" (no such path), "empty" (a directory
\* with nothing in it), "junk" (a non-empty directory git cannot inspect),
\* "cloning" (a clone is writing into it; writer is the invocation),
\* "repo" (a complete working copy).  remotes is the fetch URL of each
\* remote `git remote -v` lists, in order.
DirState(kind, remotes, tree, writer) ==
  [kind |-> kind, remotes |-> remotes, tree |-> tree, writer |-> writer]

Absent == DirState("absent", <<>>, EmptyTree, 0)
EmptyDir == DirState("empty", <<>>, EmptyTree, 0)
Junk == DirState("junk", <<>>, JunkTree, 0)
Cloning(repoUrl, p) == DirState("cloning", <<repoUrl>>, PartialTree, p)
Repo(remotes) == DirState("repo", remotes, WorkTree, 0)

\* the cache directories a server may find when it starts
InitialDirs == {Absent, EmptyDir, Junk, Repo(<<>>), Repo(<<UrlA>>), Repo(<<UrlB>>)}

-----------------------------------------------------------------------------
(* Messages, as sequences of words                                         *)

NoWords == <<>>
CauseNotFound == <<"fatal", ":", "repository", "not", "found">>
CauseNotEmpty == <<"fatal", ":", "destination", "path", "already", "exists",
                   "and", "is", "not", "an", "empty", "directory">>
CauseInterrupted == <<"fatal", ":", "could", "not", "create", "work", "tree">>
MkdirFailed == <<"EACCES", ":", "permission", "denied", ",", "mkdir">>
RmFailed == <<"EACCES", ":", "permission", "denied", ",", "rmdir">>
ScandirFailed == <<"ENOENT", ":", "no", "such", "file", "or", "directory", ",", "scandir">>
ReadIsDir == <<"EISDIR", ":", "illegal", "operation", "on", "a", "directory", ",", "read">>
StatFailed == <<"ENOENT", ":", "no", "such", "file", "or", "directory", ",", "stat">>
ReadNoEnt == <<"ENOENT", ":", "no", "such", "file", "or", "directory", ",", "open">>

\* `Failed to clone repository: ${error.message}`
CloneFailedMessage(cause) == <<"Failed", "to", "clone", "repository", ":">> \o cause

-----------------------------------------------------------------------------
(* JavaScript objects, JSON text and the response envelope                 *)

ErrorKey == <<"e", "r", "r", "o", "r">>

\* a name as it is written in a text
NameWord(name) ==
  CASE name = DotGit -> ".git"
    [] name = DotGitignore -> ".gitignore"
    [] name = DotEnv -> ".env"
    [] name = NameA -> "a"
    [] name = NameX -> "x.txt"
    [] name = ProtoKey -> "__proto__"
    [] name = ErrorKey -> "error"

\* An object literal {} with string properties: its own properties in
\* insertion order, each a pair <<key, value>>.
EmptyObject == <<>>

HasOwn(obj, key) == \E k \in 1..Len(obj) : obj[k][1] = key

Keys(obj) == {obj[k][1] : k \in 1..Len(obj)}

\* obj[key] = value on an object created by {}: the key __proto__ reaches
\* the accessor of Object.prototype, which ignores a value that is neither
\* an object nor null, so no own property is created
SetProp(obj, key, value) ==
  IF key = ProtoKey THEN obj
  ELSE IF HasOwn(obj, key)
    THEN [k \in 1..Len(obj) |-> IF obj[k][1] = key THEN <<key, value>> ELSE obj[k]]
    ELSE Append(obj, <<key, value>>)

\* JSON.stringify(obj, null, 2), as the words of the text
RECURSIVE Members(_)
Members(obj) ==
  IF obj = <<>> THEN <<>>
  ELSE <<NameWord(obj[1][1]), ":">> \o obj[1][2]
       \o (IF Len(obj) > 1 THEN <<",">> ELSE <<>>) \o Members(Tail(obj))

JSONstringify(obj) == <<"{">> \o Members(obj) \o <<"}">>

\* the tree text: the lines of getDirectoryTree, each ended by a newline
RECURSIVE TreeText(_)
TreeText(lines) ==
  IF lines = <<>> THEN <<>>
  ELSE lines[1].prefix \o <<lines[1].conn, NameWord(lines[1].entry), "\n">>
       \o TreeText(Tail(lines))

NoResponse == [status |-> "none", isError |-> FALSE, text |-> <<>>]

\* { content: [{ type: 'text', text }] }
Result(text) == [status |-> "result", isError |-> FALSE, text |-> text]

\* { content: [{ type: 'text', text }], isError: true }
ErrorResult(text) == [status |-> "result", isError |-> TRUE, text |-> text]

\* throw new McpError(ErrorCode.MethodNotFound, `Unknown tool: ${name}`)
MethodNotFound == [status |-> "MethodNotFound", isError |-> FALSE,
                   text |-> <<"Unknown", "tool", ":">>]

BatchResultMutEmptyIsError(obj) ==
  IF obj = EmptyObject THEN ErrorResult(<<"Error", ":", "no", "files">>)
  ELSE Result(JSONstringify(obj))

\* handleGitReadImportantFiles: return { content: [{ type: 'text', text:
\* JSON.stringify(results, null, 2) }] }
BatchResult(obj) == Result(JSONstringify(obj))

\* the catch block of each handler
HandlerCatch(name, message) ==
  IF name = "git_directory_structure"
    THEN ErrorResult(<<"Error", ":">> \o message)
    ELSE ErrorResult(JSONstringify(
           <<<<ErrorKey, <<"Failed", "to", "process", "repository", ":">> \o message>>>>))

-----------------------------------------------------------------------------
(* State                                                                   *)

VARIABLES
  disk,     \* the cache: the state of the directory at each path of Paths
  pc,       \* where each invocation stands (the await it is suspended at)
  req,      \* request.params of each invocation: name, repo_url, file_paths
  i,        \* handleGitReadImportantFiles: index of the path being processed
  results,  \* handleGitReadImportantFiles: the results object
  resp,     \* what the invocation has answered
  hist,     \* what the invocation has done so far (observation only)
  prev,     \* what the call before did, for a caller that waits for each answer
  walk,     \* getDirectoryTree: the calls in progress and the output so far
  tree,     \* the directory a stand-alone render works on
  renders   \* the outputs of the stand-alone renders of tree

vars == <<disk, pc, req, i, results, walk, resp, hist, prev, tree, renders>>

NoRequest == [name |-> "none", repo_url |-> UrlA, file_paths |-> <<>>]

\* probe: what cloneRepo found at the path ("none" before it looked);
\* clones: clones started; cloneFailed: a clone was started and failed;
\* cause: the message of that failure; removes: completed fs.remove calls;
\* rmFailed: an fs.remove threw; created: fs.ensureDir returned;
\* mkdirFailed: fs.ensureDir threw; acquired: cloneRepo returned tempDir;
\* path: the path it returned; reads: fs.readFile calls made;
\* walkFailed: an fs.readdir or fs.stat of getDirectoryTree threw
NoPath == <<>>

NoHistory ==
  [probe |-> "none", clones |-> 0, cloneFailed |-> FALSE, cause |-> NoWords,
   removes |-> 0, rmFailed |-> FALSE, created |-> FALSE, mkdirFailed |-> FALSE,
   acquired |-> FALSE, path |-> NoPath, reads |-> 0, walkFailed |-> FALSE]

\* One call of getDirectoryTree that has not returned: its arguments, the
\* sorted entries (empty until readdir has returned) and the index i of its
\* loop (counted from 1).
Frame(dirPath, prefix) ==
  [dirPath |-> dirPath, prefix |-> prefix, entries |-> <<>>, idx |-> 0]

\* stack: the calls of getDirectoryTree in progress, the innermost last;
\* out: the lines written so far, in the order they end up in the text
NoWalk == [stack |-> <<>>, out |-> <<>>]

NoPrevious == [repo_url |-> UrlA, acquired |-> FALSE, clones |-> 0, path |-> NoPath]

tempDir(p) == tempDirOf(req[p].repo_url)

TypeOK ==
  /\ DOMAIN disk = Paths
  /\ \A d \in Paths : disk[d].kind \in {"absent", "empty", "junk", "cloning", "repo"}
  /\ pc \in [Procs -> {"idle", "pathExists", "getRemotes", "removeStale", "ensureDir",
                       "cloneStart", "cloneEnd", "cleanup", "readdir", "stat",
                       "fileExists", "readFile", "done"}]
  /\ \A p \in Procs : /\ req[p].name \in ToolNames \cup {"none"}
                      /\ req[p].repo_url \in URLs
                      /\ i[p] \in 0..(Len(req[p].file_paths) + 1)
                      /\ resp[p].status \in {"none", "result", "MethodNotFound"}
                      /\ hist[p].clones \in 0..1
                      /\ Len(walk[p].stack) <= 2

Init ==
  /\ disk \in [Paths -> InitialDirs]
  /\ pc = [p \in Procs |-> "idle"]
  /\ req = [p \in Procs |-> NoRequest]
  /\ i = [p \in Procs |-> 0]
  /\ results = [p \in Procs |-> EmptyObject]
  /\ walk = [p \in Procs |-> NoWalk]
  /\ resp = [p \in Procs |-> NoResponse]
  /\ hist = [p \in Procs |-> NoHistory]
  /\ prev = NoPrevious
  /\ tree = EmptyTree
  /\ renders = <<>>

-----------------------------------------------------------------------------
(* Steps shared by the actions                                             *)

\* the invocation ends: it has answered r
Respond(p, r) ==
  /\ resp' = [resp EXCEPT ![p] = r]
  /\ pc' = [pc EXCEPT ![p] = "done"]

\* an error leaves cloneRepo and reaches the catch block of the handler
Throw(p, message) == Respond(p, HandlerCatch(req[p].name, message))

\* cloneRepo returns tempDir and the handler goes on:
\* handleGitDirectoryStructure calls getDirectoryTree,
\* handleGitReadImportantFiles sets results = {} and enters its loop
Acquired(p) ==
  IF req[p].name = "git_directory_structure"
    THEN /\ pc' = [pc EXCEPT ![p] = "readdir"]
         /\ walk' = [walk EXCEPT ![p] = [stack |-> <<Frame(<<>>, <<>>)>>, out |-> <<>>]]
         /\ UNCHANGED <<resp, i, results>>
    ELSE /\ results' = [results EXCEPT ![p] = EmptyObject]
         /\ UNCHANGED walk
         /\ IF req[p].file_paths = <<>>
              THEN /\ Respond(p, BatchResult(EmptyObject))
                   /\ UNCHANGED i
              ELSE /\ pc' = [pc EXCEPT ![p] = "fileExists"]
                   /\ i' = [i EXCEPT ![p] = 1]
                   /\ UNCHANGED resp

-----------------------------------------------------------------------------
(* The dispatcher: setRequestHandler(CallToolRequestSchema, ...)           *)

KnownTools == {"git_directory_structure", "git_read_important_files"}

\* the file_paths arguments of a caller that waits for each answer
BatchInputs == SeqsUpTo(FileNames, MaxPaths)

\* the file_paths arguments of callers whose invocations overlap
OverlapInputs == SeqsUpTo({NameX}, 1)

\* A caller: the file_paths it sends, and whether what its last call did is
\* remembered in prev (which only says something about the next call when
\* no other call runs in between).
SequentialCaller == [inputs |-> BatchInputs, remembers |-> TRUE]
OverlappingCallers == [inputs |-> OverlapInputs, remembers |-> FALSE]

\* the arguments a caller may send with a tool name, file_paths among inputs
Arguments(name, inputs) ==
  IF name = "git_read_important_files"
    THEN {[name |-> name, repo_url |-> u, file_paths |-> f] : u \in URLs, f \in inputs}
    ELSE {[name |-> name, repo_url |-> u, file_paths |-> <<>>] : u \in URLs}

DispatchMutFallThrough(name) == TRUE

\* switch (request.params.name): does a case of the switch take the name
Dispatch(name) == name \in KnownTools

\* A request arrives for an invocation that is free (it never ran, or it has
\* answered).  A known name runs its handler up to the first await of
\* cloneRepo, any other name is answered by the default branch.
CallTool(p, caller) ==
  /\ pc[p] \in {"idle", "done"}
  /\ \E name \in ToolNames : \E r \in Arguments(name, caller.inputs) :
       /\ req' = [req EXCEPT ![p] = r]
       /\ IF Dispatch(name)
            THEN /\ pc' = [pc EXCEPT ![p] = "pathExists"]
                 /\ resp' = [resp EXCEPT ![p] = NoResponse]
            ELSE Respond(p, MethodNotFound)
  /\ prev' = IF caller.remembers /\ pc[p] = "done" /\ req[p].name \in KnownTools
               THEN [repo_url |-> req[p].repo_url, acquired |-> hist[p].acquired,
                     clones |-> hist[p].clones, path |-> hist[p].path]
               ELSE prev
  /\ hist' = [hist EXCEPT ![p] = NoHistory]
  /\ i' = [i EXCEPT ![p] = 0]
  /\ results' = [results EXCEPT ![p] = EmptyObject]
  /\ walk' = [walk EXCEPT ![p] = NoWalk]
  /\ UNCHANGED <<disk, tree, renders>>

-----------------------------------------------------------------------------
(* cloneRepo, one action per await                                         *)

\* if (await fs.pathExists(tempDir))
PathExists(p) ==
  /\ pc[p] = "pathExists"
  /\ IF disk[tempDir(p)].kind # "absent"
       THEN /\ pc' = [pc EXCEPT ![p] = "getRemotes"]
            /\ UNCHANGED hist
       ELSE /\ pc' = [pc EXCEPT ![p] = "ensureDir"]
            /\ hist' = [hist EXCEPT ![p].probe = "Absent"]
  /\ UNCHANGED <<disk, req, i, results, walk, resp, prev, tree, renders>>

\* what simpleGit(tempDir).getRemotes(true) can do on a directory: throw, or
\* list the fetch URLs of the remotes.  A clone in progress has written its
\* configuration or not yet.
RemotesOutcomes(d) ==
  CASE d.kind = "repo" -> {[throws |-> FALSE, remotes |-> d.remotes]}
    [] d.kind = "cloning" -> {[throws |-> TRUE, remotes |-> <<>>],
                              [throws |-> FALSE, remotes |-> <<>>],
                              [throws |-> FALSE, remotes |-> d.remotes]}
    [] OTHER -> {[throws |-> TRUE, remotes |-> <<>>]}

ReusableMutCompareName(remotes, repoUrl) == Len(remotes) > 0 /\ remotes[1] = "origin"

\* remotes.length > 0 && remotes[0].refs.fetch === repoUrl
Reusable(remotes, repoUrl) == Len(remotes) > 0 /\ remotes[1] = repoUrl

GetRemotesMutNoReturn(p) ==
  /\ pc[p] = "getRemotes"
  /\ \E out \in RemotesOutcomes(disk[tempDir(p)]) :
       IF out.throws
         THEN /\ pc' = [pc EXCEPT ![p] = "removeStale"]
              /\ hist' = [hist EXCEPT ![p].probe = "Throws"]
         ELSE /\ pc' = [pc EXCEPT ![p] = "ensureDir"]
              /\ hist' = [hist EXCEPT ![p].probe =
                             IF Reusable(out.remotes, req[p].repo_url)
                               THEN "Reusable" ELSE "Mismatch"]
  /\ UNCHANGED <<resp, i, results, walk, disk, req, prev, tree, renders>>

\* const remotes = await git.getRemotes(true), the test of the first remote
\* and the catch block up to its await
GetRemotes(p) ==
  /\ pc[p] = "getRemotes"
  /\ \E out \in RemotesOutcomes(disk[tempDir(p)]) :
       IF out.throws
         THEN /\ pc' = [pc EXCEPT ![p] = "removeStale"]
              /\ hist' = [hist EXCEPT ![p].probe = "Throws"]
              /\ UNCHANGED <<resp, i, results, walk>>
         ELSE IF Reusable(out.remotes, req[p].repo_url)
           THEN /\ hist' = [hist EXCEPT ![p].probe = "Reusable", ![p].acquired = TRUE,
                                        ![p].path = tempDir(p)]
                /\ Acquired(p)
           ELSE /\ pc' = [pc EXCEPT ![p] = "ensureDir"]
                /\ hist' = [hist EXCEPT ![p].probe = "Mismatch"]
                /\ UNCHANGED <<resp, i, results, walk>>
  /\ UNCHANGED <<disk, req, prev, tree, renders>>

\* fs.remove(path) either removes the path and everything below it, or
\* throws and leaves it; removing a path that does not exist succeeds
RemoveOutcomes(d) == IF d.kind = "absent" THEN {TRUE} ELSE {TRUE, FALSE}

RemoveStaleMutNoRemove(p) ==
  /\ pc[p] = "removeStale"
  /\ pc' = [pc EXCEPT ![p] = "ensureDir"]
  /\ UNCHANGED <<disk, hist, resp, req, i, results, walk, prev, tree, renders>>

\* catch (error) { await fs.remove(tempDir); }
RemoveStale(p) ==
  /\ pc[p] = "removeStale"
  /\ \E ok \in RemoveOutcomes(disk[tempDir(p)]) :
       IF ok
         THEN /\ disk' = [disk EXCEPT ![tempDir(p)] = Absent]
              /\ pc' = [pc EXCEPT ![p] = "ensureDir"]
              /\ hist' = [hist EXCEPT ![p].removes = @ + 1]
              /\ UNCHANGED resp
         ELSE /\ Throw(p, RmFailed)
              /\ hist' = [hist EXCEPT ![p].rmFailed = TRUE]
              /\ UNCHANGED disk
  /\ UNCHANGED <<req, i, results, walk, prev, tree, renders>>

\* fs.ensureDir(path) creates the directory if it is missing, which can
\* fail; on a directory that exists it does nothing
EnsureOutcomes(d) == IF d.kind = "absent" THEN {TRUE, FALSE} ELSE {TRUE}

\* await fs.ensureDir(tempDir)
EnsureDir(p) ==
  /\ pc[p] = "ensureDir"
  /\ \E ok \in EnsureOutcomes(disk[tempDir(p)]) :
       IF ok
         THEN /\ disk' = [disk EXCEPT ![tempDir(p)] =
                            IF @.kind = "absent" THEN EmptyDir ELSE @]
              /\ pc' = [pc EXCEPT ![p] = "cloneStart"]
              /\ hist' = [hist EXCEPT ![p].created = TRUE]
              /\ UNCHANGED resp
         ELSE /\ Throw(p, MkdirFailed)
              /\ hist' = [hist EXCEPT ![p].mkdirFailed = TRUE]
              /\ UNCHANGED disk
  /\ UNCHANGED <<req, i, results, walk, prev, tree, renders>>

\* git clone refuses a destination that exists and is not empty
CloneRefused(d) == d.kind \in {"junk", "cloning", "repo"}

\* simpleGit().clone(repoUrl, tempDir) starts: git checks the destination
\* and begins to write into it, or fails at once
CloneStart(p) ==
  /\ pc[p] = "cloneStart"
  /\ IF CloneRefused(disk[tempDir(p)])
       THEN /\ pc' = [pc EXCEPT ![p] = "cleanup"]
            /\ hist' = [hist EXCEPT ![p].clones = @ + 1, ![p].cloneFailed = TRUE,
                                    ![p].cause = CauseNotEmpty]
            /\ UNCHANGED disk
       ELSE /\ pc' = [pc EXCEPT ![p] = "cloneEnd"]
            /\ hist' = [hist EXCEPT ![p].clones = @ + 1]
            /\ disk' = [disk EXCEPT ![tempDir(p)] = Cloning(req[p].repo_url, p)]
  /\ UNCHANGED <<req, i, results, walk, resp, prev, tree, renders>>

CloneSucceedsMutNever(d, p, repoUrl) == FALSE

\* await simpleGit().clone(repoUrl, tempDir) resolves: the directory is
\* still the one this clone writes into and the remote can be fetched
CloneSucceeds(d, p, repoUrl) ==
  d.kind = "cloning" /\ d.writer = p /\ repoUrl \in Reachable

\* the clone ends: `return tempDir` when the remote was fetched into the
\* directory this clone has been writing; otherwise the catch block is
\* entered (the remote cannot be fetched and git leaves the directory
\* empty, or the directory was taken away while the clone was writing)
CloneEnd(p) ==
  /\ pc[p] = "cloneEnd"
  /\ LET d == disk[tempDir(p)]
         mine == d.kind = "cloning" /\ d.writer = p
     IN  IF CloneSucceeds(d, p, req[p].repo_url)
           THEN /\ disk' = [disk EXCEPT ![tempDir(p)] = Repo(<<req[p].repo_url>>)]
                /\ hist' = [hist EXCEPT ![p].acquired = TRUE, ![p].path = tempDir(p)]
                /\ Acquired(p)
           ELSE /\ disk' = [disk EXCEPT ![tempDir(p)] = IF mine THEN EmptyDir ELSE @]
                /\ hist' = [hist EXCEPT ![p].cloneFailed = TRUE,
                                        ![p].cause = IF mine THEN CauseNotFound
                                                     ELSE CauseInterrupted]
                /\ pc' = [pc EXCEPT ![p] = "cleanup"]
                /\ UNCHANGED <<resp, i, results, walk>>
  /\ UNCHANGED <<req, prev, tree, renders>>

CleanupMutNoRemove(p) ==
  /\ pc[p] = "cleanup"
  /\ Throw(p, CloneFailedMessage(hist[p].cause))
  /\ UNCHANGED <<disk, hist, req, i, results, walk, prev, tree, renders>>

CleanupMutRetryOnce(p) ==
  /\ pc[p] = "cleanup"
  /\ IF hist[p].clones < 2
       THEN /\ pc' = [pc EXCEPT ![p] = "ensureDir"]
            /\ disk' = [disk EXCEPT ![tempDir(p)] = Absent]
            /\ UNCHANGED <<hist, resp>>
       ELSE /\ disk' = [disk EXCEPT ![tempDir(p)] = Absent]
            /\ hist' = [hist EXCEPT ![p].removes = @ + 1]
            /\ Throw(p, CloneFailedMessage(hist[p].cause))
  /\ UNCHANGED <<req, i, results, walk, prev, tree, renders>>

\* catch (error) { await fs.remove(tempDir); throw new Error(`Failed to
\* clone repository: ${error.message}`); }  A remove that throws leaves the
\* catch block with its own error.
Cleanup(p) ==
  /\ pc[p] = "cleanup"
  /\ \E ok \in RemoveOutcomes(disk[tempDir(p)]) :
       IF ok
         THEN /\ disk' = [disk EXCEPT ![tempDir(p)] = Absent]
              /\ hist' = [hist EXCEPT ![p].removes = @ + 1]
              /\ Throw(p, CloneFailedMessage(hist[p].cause))
         ELSE /\ Throw(p, RmFailed)
              /\ hist' = [hist EXCEPT ![p].rmFailed = TRUE]
              /\ UNCHANGED disk
  /\ UNCHANGED <<req, i, results, walk, prev, tree, renders>>

-----------------------------------------------------------------------------
(* handleGitDirectoryStructure after cloneRepo                             *)

\* Where a directory is on disk: the cache directory itself for the empty
\* path, a directory entry of its tree otherwise
DirExistsAt(d, dirPath) ==
  /\ d.kind # "absent"
  /\ dirPath # <<>> => dirPath \in DOMAIN d.tree /\ d.tree[dirPath]

\* fs.stat(entryPath) finds the entry
EntryExistsAt(d, entryPath) == d.kind # "absent" /\ entryPath \in DOMAIN d.tree

\* The loops of getDirectoryTree run on from the index of the innermost
\* call up to the next await: entries starting with .git are passed over, a
\* loop that is over returns to the loop of its caller, and the line of the
\* next entry is written before its fs.stat is awaited.  An empty stack says
\* that the outermost call has returned.
RECURSIVE Advance(_, _)
Advance(stack, out) ==
  IF stack = <<>> THEN [stack |-> <<>>, out |-> out]
  ELSE
    LET top == stack[Len(stack)]
        rest == SubSeq(stack, 1, Len(stack) - 1)
    IN  IF top.idx > Len(top.entries)
          THEN IF rest = <<>> THEN [stack |-> <<>>, out |-> out]
               ELSE Advance([rest EXCEPT ![Len(rest)].idx = @ + 1], out)
        ELSE IF skip(top.entries[top.idx])
          THEN Advance(Append(rest, [top EXCEPT !.idx = @ + 1]), out)
        ELSE [stack |-> stack,
              out |-> Append(out,
                        [prefix |-> top.prefix,
                         conn |-> IF isLast(top.entries, top.idx)
                                    THEN LastConnector ELSE MidConnector,
                         entry |-> top.entries[top.idx]])]

RenderThrowMutPartial(p, message) == Respond(p, Result(TreeText(walk[p].out)))

\* fs.readdir or fs.stat throws inside getDirectoryTree: no call on the
\* stack catches, the error reaches the catch block of the handler
RenderThrow(p, message) == Throw(p, message)

\* the traversal goes on to its next await, or getDirectoryTree returns and
\* the handler answers with the text
RenderGoesOn(p, next) ==
  /\ walk' = [walk EXCEPT ![p] = next]
  /\ IF next.stack = <<>>
       THEN Respond(p, Result(TreeText(next.out)))
       ELSE /\ pc' = [pc EXCEPT ![p] = "stat"]
            /\ UNCHANGED resp
  /\ UNCHANGED hist

\* const entries = await fs.readdir(dirPath); entries.sort(); and the loop
\* up to its first await
RenderReaddir(p) ==
  /\ pc[p] = "readdir"
  /\ LET d == disk[tempDir(p)]
         stack == walk[p].stack
         top == stack[Len(stack)]
     IN  IF ~DirExistsAt(d, top.dirPath)
           THEN /\ RenderThrow(p, ScandirFailed)
                /\ hist' = [hist EXCEPT ![p].walkFailed = TRUE]
                /\ UNCHANGED walk
           ELSE \E order \in Orders(NamesIn(d.tree)) :
                  RenderGoesOn(p, Advance(
                    [stack EXCEPT ![Len(stack)].entries =
                                     Sort(readdir(d.tree, top.dirPath, order)),
                                  ![Len(stack)].idx = 1],
                    walk[p].out))
  /\ UNCHANGED <<disk, req, i, results, prev, tree, renders>>

\* const stats = await fs.stat(entryPath): a directory is entered with the
\* prefix extended, after a file the loop goes on
RenderStat(p) ==
  /\ pc[p] = "stat"
  /\ LET d == disk[tempDir(p)]
         stack == walk[p].stack
         top == stack[Len(stack)]
         entryPath == Append(top.dirPath, top.entries[top.idx])
         nextPrefix == IF isLast(top.entries, top.idx) THEN Blank ELSE PassThrough
     IN  IF ~EntryExistsAt(d, entryPath)
           THEN /\ RenderThrow(p, StatFailed)
                /\ hist' = [hist EXCEPT ![p].walkFailed = TRUE]
                /\ UNCHANGED walk
           ELSE IF d.tree[entryPath]
             THEN /\ walk' = [walk EXCEPT ![p].stack =
                                Append(stack, Frame(entryPath, Append(top.prefix, nextPrefix)))]
                  /\ pc' = [pc EXCEPT ![p] = "readdir"]
                  /\ UNCHANGED <<resp, hist>>
             ELSE RenderGoesOn(p, Advance([stack EXCEPT ![Len(stack)].idx = @ + 1],
                                          walk[p].out))
  /\ UNCHANGED <<disk, req, i, results, prev, tree, renders>>

-----------------------------------------------------------------------------
(* handleGitReadImportantFiles after cloneRepo: the loop over file_paths   *)

\* fs.pathExists(path.join(repoPath, filePath))
FileExistsAt(d, filePath) == d.kind # "absent" /\ <<filePath>> \in DOMAIN d.tree

\* fs.readFile(fullPath, 'utf8'): the text, or the message of the error
ReadOutcome(d, filePath) ==
  IF ~FileExistsAt(d, filePath) THEN [throws |-> TRUE, words |-> ReadNoEnt]
  ELSE IF d.tree[<<filePath>>] THEN [throws |-> TRUE, words |-> ReadIsDir]
  ELSE [throws |-> FALSE, words |-> FileText]

NotFoundMarker == <<"Error", ":", "File", "not", "found">>

\* `Error reading file: ${error.message}`
ReadErrorMarker(message) == <<"Error", "reading", "file", ":">> \o message

\* the end of one iteration: results[filePath] = value, then the next
\* path, or the return after the last one
Store(p, value) ==
  LET filePath == req[p].file_paths[i[p]]
      stored == SetProp(results[p], filePath, value)
  IN  /\ results' = [results EXCEPT ![p] = stored]
      /\ i' = [i EXCEPT ![p] = @ + 1]
      /\ UNCHANGED walk
      /\ IF i[p] = Len(req[p].file_paths)
           THEN Respond(p, BatchResult(stored))
           ELSE /\ pc' = [pc EXCEPT ![p] = "fileExists"]
                /\ UNCHANGED resp

\* if (await fs.pathExists(fullPath)) ... else results[filePath] = 'Error:
\* File not found'
FileExists(p) ==
  /\ pc[p] = "fileExists"
  /\ IF FileExistsAt(disk[tempDir(p)], req[p].file_paths[i[p]])
       THEN /\ pc' = [pc EXCEPT ![p] = "readFile"]
            /\ UNCHANGED <<resp, i, results, walk>>
       ELSE Store(p, NotFoundMarker)
  /\ UNCHANGED <<disk, req, hist, prev, tree, renders>>

ReadFileMutNoCatch(p) ==
  /\ pc[p] = "readFile"
  /\ LET out == ReadOutcome(disk[tempDir(p)], req[p].file_paths[i[p]])
     IN  IF out.throws
           THEN /\ Throw(p, out.words)
                /\ UNCHANGED <<i, results, walk>>
           ELSE Store(p, out.words)
  /\ hist' = [hist EXCEPT ![p].reads = @ + 1]
  /\ UNCHANGED <<disk, req, prev, tree, renders>>

\* results[filePath] = await fs.readFile(fullPath, 'utf8'), with the catch
\* block of the iteration
ReadFile(p) ==
  /\ pc[p] = "readFile"
  /\ LET out == ReadOutcome(disk[tempDir(p)], req[p].file_paths[i[p]])
     IN  Store(p, IF out.throws THEN ReadErrorMarker(out.words) ELSE out.words)
  /\ hist' = [hist EXCEPT ![p].reads = @ + 1]
  /\ UNCHANGED <<disk, req, prev, tree, renders>>

-----------------------------------------------------------------------------
(* The server                                                              *)

Step(p, caller) ==
  \/ CallTool(p, caller)
  \/ PathExists(p)
  \/ GetRemotes(p)
  \/ RemoveStale(p)
  \/ EnsureDir(p)
  \/ CloneStart(p)
  \/ CloneEnd(p)
  \/ Cleanup(p)
  \/ RenderReaddir(p)
  \/ RenderStat(p)
  \/ FileExists(p)
  \/ ReadFile(p)

\* invocations interleave at their awaits
Next == \E p \in Procs : Step(p, OverlappingCallers)

Spec == Init /\ [][Next]_vars

\* the steps of an invocation that is in flight: each is a git or file
\* system call returning or throwing
Proceed(p) ==
  \/ PathExists(p)
  \/ GetRemotes(p)
  \/ RemoveStale(p)
  \/ EnsureDir(p)
  \/ CloneStart(p)
  \/ CloneEnd(p)
  \/ Cleanup(p)
  \/ RenderReaddir(p)
  \/ RenderStat(p)
  \/ FileExists(p)
  \/ ReadFile(p)

\* a caller that awaits each answer before the next request and keeps no
\* record of the answers
AwaitingCaller == [inputs |-> BatchInputs, remembers |-> FALSE]

NextFair == Step(1, AwaitingCaller)

\* every call that an invocation awaits returns or throws in the end
SpecFair == Init /\ [][NextFair]_vars /\ WF_vars(Proceed(1))

\* one invocation at a time: a request is sent only after the answer to the
\* one before
NextSeq == Step(1, SequentialCaller)

SpecSeq == Init /\ [][NextSeq]_vars

-----------------------------------------------------------------------------
(* getDirectoryTree on its own: a directory is populated, then rendered    *)
(* twice without a change in between                                       *)

InitTree ==
  /\ Init
  /\ disk = [d \in Paths |-> Absent]

\* an entry is created in the root or in a directory of the tree
AddEntry ==
  /\ renders = <<>>
  /\ Cardinality(DOMAIN tree) < MaxNodes
  /\ \E dirPath \in {<<>>} \cup {q \in DOMAIN tree : tree[q]} :
       \E name \in TreeNames : \E isDir \in BOOLEAN :
         /\ Append(dirPath, name) \notin DOMAIN tree
         /\ tree' = (Append(dirPath, name) :> isDir) @@ tree
  /\ UNCHANGED <<disk, pc, req, i, results, walk, resp, hist, prev, renders>>

\* getDirectoryTree(root), readdir listing each directory in some order
RenderTree ==
  /\ Len(renders) < 2
  /\ \E order \in Orders(NamesIn(tree)) :
       renders' = Append(renders, getDirectoryTree(tree, <<>>, <<>>, order))
  /\ UNCHANGED <<disk, pc, req, i, results, walk, resp, hist, prev, tree>>

NextTree == AddEntry \/ RenderTree

SpecTree == InitTree /\ [][NextTree]_vars

-----------------------------------------------------------------------------
(* Reading a rendering back                                                *)

\* the depth of a line: one continuation prefix per enclosing directory
Depth(line) == Len(line.prefix)

\* the line of the directory that line k of out is listed in (0: the root)
ParentLine(out, k) ==
  IF \E j \in 1..(k - 1) : Depth(out[j]) < Depth(out[k])
    THEN CHOOSE j \in 1..(k - 1) :
           /\ Depth(out[j]) < Depth(out[k])
           /\ \A m \in (j + 1)..(k - 1) : Depth(out[m]) >= Depth(out[k])
    ELSE 0

\* the path of the entry that line k of out stands for
RECURSIVE PathOfLine(_, _)
PathOfLine(out, k) ==
  IF ParentLine(out, k) = 0 THEN <<out[k].entry>>
  ELSE Append(PathOfLine(out, ParentLine(out, k)), out[k].entry)

\* line k is the last line of its directory's listing: no later line of out
\* stands for an entry of the same directory
LastRendered(out, k) ==
  \A j \in (k + 1)..Len(out) : ParentLine(out, j) # ParentLine(out, k)

\* the entries a rendering has to list: no name on the path starts with .git
Visible(t) == {q \in DOMAIN t : \A m \in 1..Len(q) : ~StartsWith(q[m], DotGit)}

\* a comes before b when a directory is listed depth-first with the entries
\* of each directory in lexicographic order
PathBefore(a, b) ==
  \/ Len(a) < Len(b) /\ SubSeq(b, 1, Len(a)) = a
  \/ \E m \in 1..Len(a) :
       /\ m <= Len(b)
       /\ SubSeq(a, 1, m - 1) = SubSeq(b, 1, m - 1)
       /\ StrLess(a[m], b[m])

-----------------------------------------------------------------------------
(* Claims                                                                  *)

Range(f) == {f[k] : k \in DOMAIN f}

\* the invocation p has answered a call of one of the two tools
Answered(p) == pc[p] = "done" /\ req[p].name \in KnownTools

\* C1: when a call of acquire(R) has cloned R and returned its path, the
\* next call of acquire(R), with nothing else touching the cache in between,
\* starts no clone and returns the same path: the two calls make exactly one
\* clone.
C1_SecondAcquireReuses ==
  \A p \in Procs :
    (/\ req[p].name \in KnownTools
     /\ pc[p] # "idle"
     /\ prev.acquired /\ prev.clones = 1
     /\ prev.repo_url = req[p].repo_url)
    => /\ hist[p].clones = 0
       /\ pc[p] \notin {"removeStale", "ensureDir", "cloneStart", "cloneEnd", "cleanup"}
       /\ pc[p] \notin {"pathExists", "getRemotes"} =>
            /\ hist[p].acquired
            /\ hist[p].path = prev.path
            /\ prev.clones + hist[p].clones = 1

\* the second of two acquisitions of the same URL has answered, the first
\* one had cloned
C1_Witness ==
  /\ Answered(1)
  /\ prev.acquired /\ prev.clones = 1 /\ prev.repo_url = req[1].repo_url
  /\ hist[1].probe = "Reusable" /\ hist[1].acquired

\* C2: when the cache directory of R is a working copy whose first remote is
\* not R, or that has no remote, and R can be fetched, acquire(R) removes the
\* directory before it clones and returns the path (no file system call
\* failing).
C2_StaleCopyReplaced ==
  \A p \in Procs :
    (/\ Answered(p)
     /\ hist[p].probe = "Mismatch"
     /\ req[p].repo_url \in Reachable
     /\ ~hist[p].rmFailed /\ ~hist[p].mkdirFailed)
    => hist[p].acquired /\ hist[p].removes >= 1

ContainsWord(text, word) == \E k \in 1..Len(text) : text[k] = word

\* C4: whenever acquisition fails, the answer of either tool is a result with
\* the error flag set whose text contains the word "Error".
C4_AcquisitionFailureSaysError ==
  \A p \in Procs :
    Answered(p) /\ ~hist[p].acquired
    => /\ resp[p].status = "result"
       /\ resp[p].isError
       /\ ContainsWord(resp[p].text, "Error")

\* C5: once acquisition has succeeded, the results of
\* git_read_important_files have exactly one entry for every requested path
\* and no other entry, and the answer is the text of that mapping.
C5_OneEntryPerPath ==
  \A p \in Procs :
    (/\ Answered(p)
     /\ req[p].name = "git_read_important_files"
     /\ hist[p].acquired)
    => /\ Keys(results[p]) = Range(req[p].file_paths)
       /\ Len(results[p]) = Cardinality(Range(req[p].file_paths))
       /\ resp[p] = Result(JSONstringify(results[p]))

\* C6: in every rendering, the last entry rendered in a directory's listing
\* has the terminal connector and every other rendered entry the mid-branch
\* connector, and the lines of an entry's children continue its prefix with
\* the blank piece after a terminal connector and with the pass-through
\* piece after a mid-branch connector.
C6_LastRenderedIsTerminal ==
  \A r \in 1..Len(renders) :
    LET out == renders[r]
    IN  \A k \in 1..Len(out) :
          /\ out[k].conn = IF LastRendered(out, k) THEN LastConnector ELSE MidConnector
          /\ \A j \in 1..Len(out) :
               ParentLine(out, j) = k =>
                 out[j].prefix = Append(out[k].prefix,
                                        IF LastRendered(out, k) THEN Blank ELSE PassThrough)

\* C7: a rendering lists exactly the entries that have no name starting with
\* .git on their path (so nothing below such an entry either), each once,
\* depth-first with the entries of each directory in lexicographic order,
\* and two renderings of the same directory are the same whatever order
\* readdir listed the entries in.
C7_SortedDepthFirstFiltered ==
  /\ \A r \in 1..Len(renders) :
       LET out == renders[r]
       IN  /\ {PathOfLine(out, k) : k \in 1..Len(out)} = Visible(tree)
           /\ Len(out) = Cardinality(Visible(tree))
           /\ \A k \in 1..Len(out) :
                /\ Depth(out[k]) = Len(PathOfLine(out, k)) - 1
                /\ ~StartsWith(out[k].entry, DotGit)
           /\ \A k, j \in 1..Len(out) :
                k < j => PathBefore(PathOfLine(out, k), PathOfLine(out, j))
  /\ Len(renders) = 2 => renders[1] = renders[2]

\* a directory with a .git directory that has content and two visible
\* entries, rendered twice
C7_Witness ==
  /\ Len(renders) = 2
  /\ DOMAIN tree = {<<DotGit>>, <<DotGit, NameX>>, <<DotEnv>>, <<NameX>>}
  /\ Len(renders[1]) = 2

\* C8: the only way the clone of a reachable remote fails for an invocation
\* that found the path absent is another invocation working on the same
\* path between its probe and the end of its clone: the clone was refused
\* because the directory was already populated, or the directory was taken
\* away while it was written (the racing state itself is C8_Witness).
C8_CloneOfReachableFailsOnlyByRace ==
  \A p \in Procs :
    (/\ hist[p].cloneFailed
     /\ hist[p].probe = "Absent"
     /\ req[p].repo_url \in Reachable)
    => hist[p].cause \in {CauseNotEmpty, CauseInterrupted}

\* two invocations on the same reachable URL both found the path absent,
\* both created the directory and both started a clone; the second clone
\* was refused
C8_Witness ==
  \E p, q \in Procs :
    /\ p # q
    /\ req[p].repo_url = req[q].repo_url
    /\ req[p].repo_url \in Reachable
    /\ hist[p].probe = "Absent" /\ hist[q].probe = "Absent"
    /\ hist[p].created /\ hist[q].created
    /\ hist[p].clones = 1 /\ hist[q].clones = 1
    /\ hist[q].cloneFailed /\ hist[q].cause = CauseNotEmpty

\* C9: a call with an unknown tool name is answered by MethodNotFound in the
\* step that receives it, that step leaves the cache as it is, and the call
\* never reaches a step of cloneRepo.
C9_UnknownToolRejected ==
  [][\A p \in Procs :
       req'[p].name \notin KnownTools \cup {"none"}
       => /\ pc'[p] = "done"
          /\ resp'[p] = MethodNotFound
          /\ hist'[p] = NoHistory
          /\ (req'[p] # req[p] \/ resp'[p] # resp[p]) => disk' = disk]_vars

\* an unknown tool was called while the cache holds a working copy
C9_Witness ==
  /\ req[1].name = "git_unknown_tool"
  /\ pc[1] = "done"
  /\ resp[1] = MethodNotFound
  /\ \E d \in Paths : disk[d].kind = "repo"

\* C10: git_read_important_files with an empty file_paths on a repository
\* that was acquired answers with the empty mapping and without the error
\* flag.
C10_EmptyBatchSucceeds ==
  \A p \in Procs :
    (/\ Answered(p)
     /\ req[p].name = "git_read_important_files"
     /\ req[p].file_paths = <<>>
     /\ hist[p].acquired)
    => /\ results[p] = EmptyObject
       /\ resp[p].status = "result"
       /\ ~resp[p].isError
       /\ resp[p].text = JSONstringify(EmptyObject)

\* an empty batch on a repository that had to be cloned first
C10_Witness ==
  /\ Answered(1)
  /\ req[1].name = "git_read_important_files"
  /\ req[1].file_paths = <<>>
  /\ hist[1].acquired /\ hist[1].clones = 1
  /\ ~resp[1].isError

\* C11: whenever the clone of an invocation has failed, the invocation is
\* answered with the failure of the clone, 'Failed to clone repository:'
\* and its cause, also when the cleanup removal fails.
C11_CloneFailureIsReported ==
  \A p \in Procs :
    Answered(p) /\ hist[p].cloneFailed
    => resp[p] = HandlerCatch(req[p].name, CloneFailedMessage(hist[p].cause))

\* C12: when the path exists and inspecting it throws, acquire removes the
\* path before it goes on as for an absent path (the directory is created,
\* then one clone is started); when that removal throws, acquire fails with
\* the error of the removal, the directory is not created and no clone is
\* started.
C12_UninspectableIsRemovedFirst ==
  \A p \in Procs :
    hist[p].probe = "Throws" =>
      /\ pc[p] \in {"removeStale", "ensureDir", "cloneStart", "cloneEnd", "cleanup",
                    "readdir", "stat", "fileExists", "readFile", "done"}
      /\ pc[p] = "removeStale" => hist[p].removes = 0 /\ ~hist[p].created
      /\ pc[p] = "ensureDir" => disk[tempDir(p)].kind = "absent"
      /\ pc[p] \notin {"removeStale", "done"} => hist[p].removes >= 1
      /\ hist[p].created \/ hist[p].clones > 0 \/ hist[p].acquired => hist[p].removes >= 1
      /\ hist[p].clones > 0 => hist[p].created
      /\ (pc[p] = "done" /\ hist[p].removes = 0) =>
           /\ hist[p].rmFailed
           /\ ~hist[p].created /\ hist[p].clones = 0 /\ ~hist[p].acquired
           /\ resp[p] = HandlerCatch(req[p].name, RmFailed)
      /\ (pc[p] = "done" /\ hist[p].removes >= 1) =>
           hist[p].mkdirFailed \/ (hist[p].created /\ hist[p].clones = 1)

\* the removal of an uninspectable directory has failed
C12_Witness ==
  /\ Answered(1)
  /\ hist[1].probe = "Throws"
  /\ hist[1].rmFailed /\ hist[1].removes = 0
  /\ disk[tempDir(1)].kind = "junk"

\* an invocation has made a step
Moved(p) == <<pc[p], i[p], hist[p], resp[p], walk[p]>> # <<pc'[p], i'[p], hist'[p], resp'[p], walk'[p]>>

\* C13: an invocation whose probe found the first remote equal to R has the
\* path returned at once: it has started no clone and created or removed no
\* directory, and none of its steps changes the cache.
C13_ReusableChangesNothing ==
  [][\A p \in Procs :
       hist'[p].probe = "Reusable" =>
         /\ hist'[p].acquired /\ hist'[p].path = tempDirOf(req'[p].repo_url)
         /\ hist'[p].clones = 0 /\ hist'[p].removes = 0
         /\ ~hist'[p].created /\ ~hist'[p].rmFailed /\ ~hist'[p].mkdirFailed
         /\ pc'[p] \in {"readdir", "stat", "fileExists", "readFile", "done"}
         /\ Moved(p) => disk' = disk]_vars

\* a working copy of R was found and returned, and is still in the cache
\* when the invocation has answered
C13_Witness ==
  \E p \in Procs :
    /\ Answered(p)
    /\ hist[p].probe = "Reusable"
    /\ disk[tempDir(p)] = Repo(<<req[p].repo_url>>)
    /\ ~resp[p].isError

\* what the entry of a path has to be, given the directory at the moment
\* the path is read
Classified(d, filePath) ==
  IF ~FileExistsAt(d, filePath) THEN NotFoundMarker
  ELSE IF d.tree[<<filePath>>] THEN ReadErrorMarker(ReadIsDir)
  ELSE FileText

\* C14: the step that ends the iteration of a path stores for it 'Error:
\* File not found' if the path does not exist at that moment, 'Error reading
\* file:' and the cause if it exists and cannot be read, and its text
\* otherwise.
C14_OutcomeFollowsFileState ==
  [][\A p \in Procs :
       (pc[p] \in {"fileExists", "readFile"} /\ i'[p] = i[p] + 1) =>
         \E k \in 1..Len(results'[p]) :
           results'[p][k] = <<req[p].file_paths[i[p]],
                              Classified(disk[tempDir(p)], req[p].file_paths[i[p]])>>]_vars

\* C15: when an fs.readdir or fs.stat of the traversal throws, the
\* invocation ends at once with the error flag set and the text 'Error:'
\* and the message of that error; no line written before is in the text.
C15_TraversalErrorAbortsRender ==
  \A p \in Procs :
    hist[p].walkFailed =>
      /\ pc[p] = "done"
      /\ resp[p].status = "result" /\ resp[p].isError
      /\ resp[p].text \in {<<"Error", ":">> \o ScandirFailed, <<"Error", ":">> \o StatFailed}
      /\ \A k \in 1..Len(resp[p].text) :
           resp[p].text[k] \notin {MidConnector, LastConnector}

\* a directory vanished while the traversal was inside a subdirectory, after
\* lines had been written
C15_Witness ==
  \E p \in Procs :
    /\ hist[p].walkFailed
    /\ Len(walk[p].stack) = 2
    /\ Len(walk[p].out) > 0
    /\ resp[p].isError

\* C16: the answer of git_read_important_files has the error flag exactly
\* when cloneRepo did not return the path.
C16_ErrorFlagIffAcquisitionFailed ==
  \A p \in Procs :
    (Answered(p) /\ req[p].name = "git_read_important_files")
    => (resp[p].isError <=> ~hist[p].acquired)

\* a batch with a missing file and a file that cannot be read has answered
\* without the error flag
C16_Witness ==
  /\ Answered(1)
  /\ req[1].name = "git_read_important_files"
  /\ hist[1].acquired
  /\ \E k \in 1..Len(results[1]) : results[1][k][2] = ReadErrorMarker(ReadIsDir)
  /\ \E k \in 1..Len(results[1]) : results[1][k][2] = NotFoundMarker
  /\ ~resp[1].isError

\* C17: an invocation starts at most one clone and reads each requested
\* path at most once, it has no answer while it is in flight and one when
\* it is done, and when every awaited call returns or throws, every
\* invocation in flight is answered.
C17_NoRetryAndOneAnswer ==
  /\ [](\A p \in Procs :
          /\ hist[p].clones <= 1
          /\ hist[p].reads <= Len(req[p].file_paths)
          /\ pc[p] \in {"fileExists", "readFile"} => hist[p].reads <= i[p] - 1
          /\ pc[p] \notin {"idle", "done"} => resp[p] = NoResponse
          /\ pc[p] = "done" => resp[p].status # "none")
  /\ \A p \in Procs : (pc[p] \notin {"idle", "done"}) ~> (pc[p] = "done")

\* a failed clone has been reported, after one attempt
C17_Witness ==
  \E p \in Procs :
    /\ Answered(p)
    /\ hist[p].cloneFailed /\ hist[p].clones = 1
    /\ resp[p].isError

\* C18: in the step in which cloneRepo returns the path, the directory at
\* the path is a complete working copy whose first remote is R.
C18_ReturnedPathIsCompleteCopy ==
  [][\A p \in Procs :
       (~hist[p].acquired /\ hist'[p].acquired) =>
         /\ disk'[tempDir(p)].kind = "repo"
         /\ Reusable(disk'[tempDir(p)].remotes, req[p].repo_url)]_vars

\* C19: while an invocation that has acquired a complete working copy is
\* rendering it or reading from it, no step removes the directory.
C19_CopyInUseIsNotRemoved ==
  [][\A p \in Procs :
       (/\ hist[p].acquired
        /\ pc[p] \in {"readdir", "stat", "fileExists", "readFile"}
        /\ disk[tempDir(p)].kind = "repo")
       => disk'[tempDir(p)].kind # "absent"]_vars

\* without another invocation in between, the text of a render is the text
\* getDirectoryTree gives for the directory
WalkAgreesWithGetDirectoryTree ==
  (Answered(1) /\ req[1].name = "git_directory_structure" /\ hist[1].acquired)
  => /\ ~resp[1].isError
     /\ \A order \in Orders(NamesIn(disk[tempDir(1)].tree)) :
          resp[1].text = TreeText(getDirectoryTree(disk[tempDir(1)].tree, <<>>, <<>>, order))

\* with another invocation in between as well, an invocation in flight has
\* a step to take
InFlightCanProceed ==
  \A p \in Procs : pc[p] \notin {"idle", "done"} => ENABLED Proceed(p)

====
